---- MODULE Spec2Model ----
(***************************************************************************)
(* A model of locale/import-symbols.py: the SymbolsDictionary container    *)
(* and its text rendering, createCLDRAnnotationsDict, the font-variant     *)
(* step over UnicodeData.txt and the two-phase emoji step (exception       *)
(* languages, then the scan of the main annotations directory).            *)
(*                                                                         *)
(* Text is modelled by TLA+ strings; a dictionary is the sequence of its   *)
(* (pattern, description) items in OrderedDict order.                      *)
(***************************************************************************)
EXTENDS Integers, Sequences, FiniteSets, TLC

\* ------------------------------------------------------------------ bounds

\* Longest sequence of __setitem__ calls applied to one SymbolsDictionary.
MaxSets == 3

\* Longest source list handed to createCLDRAnnotationsDict on its own.
MaxSources == 2

\* Most annotation files present in the two CLDR directories in one run.
MaxFiles == 3

\* Most records in UnicodeData.txt.
MaxRecords == 3

\* ------------------------------------------------------------- variables

VARIABLES
    \* SymbolsDictionary under test
    items,              \* the OrderedDict content: a sequence of <<pattern, description>>
    symbolsQualifier,   \* self.symbolsQualifier
    history,            \* the __setitem__ calls made so far, in order
    dicText,            \* the result of the last str(self), as an optional value
    \* the file system read by the emoji step
    fs,                 \* existing annotation files: path -> parsed content
    \* createCLDRAnnotationsDict on its own
    sources,            \* the argument of the call
    result,             \* what the call returned or raised, as an optional value
    \* the emoji step
    pc,                 \* "exceptions", "scan", "done" or "aborted"
    excIdx,             \* position of the loop of line 141 in CLDRExceptionsList
    listing,            \* what os.listdir(annotationsDir) returned and was not visited yet
    processedFiles,     \* the list of line 135
    dirs,               \* directories existing in the output directory
    dicFiles,           \* dictionary files written by the run: path -> text
    runLog,             \* one record per loop iteration made so far
    \* the font-variant step
    uDataFile,          \* the records of UnicodeData.txt, each a sequence of fields
    uPos,               \* how many records the loop of line 101 has read
    fontVariantsDict,   \* the dictionary of line 100
    fontPc              \* "reading", "done" or "aborted"

dictVars == <<items, symbolsQualifier, history, dicText>>
extractVars == <<sources, result>>
emojiVars == <<pc, excIdx, listing, processedFiles, dirs, dicFiles, runLog>>

fontVars == <<uDataFile, uPos, fontVariantsDict, fontPc>>

vars == <<dictVars, fs, extractVars, emojiVars, fontVars>>

\* ------------------------------------------------------------ Python values

\* Python's None, and a value that is not None.
None == [isNone |-> TRUE]
Some(v) == [isNone |-> FALSE, val |-> v]

\* Truth value of an optional string, as `if x:` tests it: None and "" are false.
Truthy(x) == (~x.isNone) /\ x.val # ""

\* ------------------------------------------------- SymbolsDictionary (l.33-55)

\* SymbolsDictionary.__init__: an empty dictionary with its qualifier.
SymbolsDictionary(qualifier) == [symbolsQualifier |-> qualifier, items |-> <<>>]

HasKey(d, k) == \E i \in 1..Len(d) : d[i][1] = k

\* d[k], for a key the dictionary holds.
GetItem(d, k) == d[CHOOSE i \in 1..Len(d) : d[i][1] = k][2]

\* A __setitem__ that deletes an existing key and appends it again.
SetItemMoveToEnd(d, k, v) ==
    Append(SelectSeq(d, LAMBDA item : item[1] # k), <<k, v>>)

\* A __setitem__ that keeps the value of an existing key (setdefault).
SetItemKeepFirst(d, k, v) ==
    IF \E i \in 1..Len(d) : d[i][1] = k THEN d ELSE Append(d, <<k, v>>)

\* OrderedDict.__setitem__: a new key is appended, an existing key keeps its
\* position and takes the new value.
SetItem(d, k, v) ==
    IF HasKey(d, k)
    THEN [i \in 1..Len(d) |-> IF d[i][1] = k THEN <<k, v>> ELSE d[i]]
    ELSE Append(d, <<k, v>>)

\* A data line whose qualifier replaces the "none" column.
FormatLineNoNone(pattern, description, qualifier) ==
    IF Truthy(qualifier)
    THEN pattern \o "\t" \o description \o "\t" \o qualifier.val \o "\r\n"
    ELSE pattern \o "\t" \o description \o "\tnone\r\n"

\* One data line of __str__: the format of line 45 with a qualifier, of line 51
\* without.
FormatLine(pattern, description, qualifier) ==
    IF Truthy(qualifier)
    THEN pattern \o "\t" \o description \o "\tnone\t" \o qualifier.val \o "\r\n"
    ELSE pattern \o "\t" \o description \o "\tnone\r\n"

\* SymbolsDictionary.__str__: the header, then the items' lines in order.
RECURSIVE StrFrom(_, _, _, _)
StrFrom(d, qualifier, i, acc) ==
    IF i > Len(d) THEN acc
    ELSE StrFrom(d, qualifier, i + 1,
                 acc \o FormatLine(d[i][1], d[i][2], qualifier))

Str(d, qualifier) == StrFrom(d, qualifier, 1, "symbols:\r\n")

\* ---------------------------------------------------- paths and constants

\* os.path.join of a directory and a relative name.
PathJoin(dir, name) == dir \o "/" \o name

CLDRDir == "symbolsrc/cldr"
annotationsDir == PathJoin(CLDRDir, "common/annotations")
annotationsDerivedDir == PathJoin(CLDRDir, "common/annotationsDerived")

docHeader ==
    "# This file was automatically generated by make import-symbols\n"
    \o "# DO NOT MODIFY IT!\n"
    \o "# See locale/README.md to know how to import dictionaries\n\n"

\* The exception table, in the order the dictionary literal lists it.
CLDRExceptionsList ==
    << [lang |-> "sr",    files |-> <<"sr", "sr_Latn">>],
       [lang |-> "sr_BA", files |-> <<"sr_Latn_BA">>],
       [lang |-> "yue",   files |-> <<"yue", "yue_Hans">>],
       [lang |-> "zh_HK", files |-> <<"zh_Hant_HK">>],
       [lang |-> "zh_TW", files |-> <<"zh_Hant">>] >>

\* processedFiles as line 135 creates it.
InitialProcessedFiles == <<"root.xml", "en_001.xml", "sr_Cyrl.xml", "sr_Cyrl_BA.xml">>

\* ------------------------------------------------ annotation file contents

\* An annotation file the XML parser accepts holds a sequence of elements;
\* each element has a tag, its attributes and its text.  Every annotation
\* element here has a cp attribute and a text, as those of CLDR have; any
\* file on which the extraction fails otherwise is a Malformed one.
Element(tag, attrib, text) == [tag |-> tag, attrib |-> attrib, text |-> text]
Parsed(elems) == [ok |-> TRUE, elems |-> elems]
\* A file on which ElementTree.parse raises.
Malformed == [ok |-> FALSE]

\* element.attrib.get("type") == "tts"
IsTts(element) ==
    /\ "type" \in DOMAIN element.attrib
    /\ element.attrib["type"] = "tts"

\* str.replace(old, new) for a non-empty old: non-overlapping, left to right.
RECURSIVE Replace(_, _, _)
Replace(s, old, new) ==
    IF Len(s) < Len(old) THEN s
    ELSE IF SubSeq(s, 1, Len(old)) = old
         THEN new \o Replace(SubSeq(s, Len(old) + 1, Len(s)), old, new)
         ELSE SubSeq(s, 1, 1) \o Replace(SubSeq(s, 2, Len(s)), old, new)

\* ------------------------------------- createCLDRAnnotationsDict (l.57-69)

Return(v) == [raised |-> "", value |-> v]
Raise(e) == [raised |-> e]

\* The loop of lines 65-67 over one parsed tree.
RECURSIVE AddElements(_, _, _)
AddElements(cldrDict, elems, i) ==
    IF i > Len(elems) THEN cldrDict
    ELSE AddElements(
            IF elems[i].tag = "annotation" /\ IsTts(elems[i])
            THEN SetItem(cldrDict, elems[i].attrib["cp"],
                         Replace(elems[i].text, ":", ""))
            ELSE cldrDict,
            elems, i + 1)

\* The return without the assertion.
ReturnUnchecked(cldrDict) == Return(cldrDict)

\* `assert cldrDict` and the return: an empty dictionary is false.
AssertAndReturn(cldrDict) ==
    IF cldrDict = <<>> THEN Raise("AssertionError") ELSE Return(cldrDict)

\* The loop of lines 63-67, then the assertion of line 68 and the return.
RECURSIVE ExtractFrom(_, _, _)
ExtractFrom(srcs, i, cldrDict) ==
    IF i > Len(srcs) THEN AssertAndReturn(cldrDict)
    ELSE IF srcs[i] \notin DOMAIN fs THEN Raise("FileNotFoundError")
    ELSE IF ~fs[srcs[i]].ok THEN Raise("ParseError")
    ELSE ExtractFrom(srcs, i + 1, AddElements(cldrDict, fs[srcs[i]].elems, 1))

createCLDRAnnotationsDict(srcs) == ExtractFrom(srcs, 1, <<>>)

\* The contents annotation files are given.
TreeNoTts == Parsed(<< Element("annotation", [cp |-> "k1"], "face | grin") >>)
TreeA ==
    Parsed(<< Element("annotation", [cp |-> "k1"], "face | grin"),
              Element("annotation", [cp |-> "k1", type |-> "tts"], "a: one"),
              Element("annotation", [cp |-> "k2", type |-> "tts"], "a two") >>)
TreeB ==
    Parsed(<< Element("annotation", [cp |-> "k3", type |-> "tts"], "b three"),
              Element("annotation", [cp |-> "k1", type |-> "tts"], ":b:one"),
              Element("annotations", [cp |-> "k2", type |-> "tts"], "not an annotation") >>)
TreeC ==
    Parsed(<< Element("annotation", [cp |-> "k1", type |-> "tts"], "c first"),
              Element("annotation", [cp |-> "k1", type |-> "tts"], "c last") >>)
TreeEmpty == Parsed(<<>>)

\* ------------------------------- specification: createCLDRAnnotationsDict

ExtractPaths ==
    { PathJoin(annotationsDir, "fr.xml"),
      PathJoin(annotationsDerivedDir, "fr.xml"),
      PathJoin(annotationsDir, "de.xml") }
ExtractContents == {TreeEmpty, TreeNoTts, TreeA, TreeB, TreeC, Malformed}

ExtractIdle ==
    /\ sources = <<>>
    /\ result = None

EmojiIdle ==
    /\ pc = "idle"
    /\ excIdx = 1
    /\ listing = {}
    /\ processedFiles = InitialProcessedFiles
    /\ dirs = {}
    /\ dicFiles = <<>>
    /\ runLog = {}

FontIdle ==
    /\ uDataFile = <<>>
    /\ uPos = 0
    /\ fontVariantsDict = SymbolsDictionary(None)
    /\ fontPc = "idle"

DictIdle ==
    /\ items = <<>>
    /\ symbolsQualifier = None
    /\ history = <<>>
    /\ dicText = None

SeqsUpTo(S, n) == UNION {[1..k -> S] : k \in 0..n}

ExtractInit ==
    /\ fs \in UNION {[S -> ExtractContents] : S \in SUBSET ExtractPaths}
    /\ sources \in SeqsUpTo(ExtractPaths, MaxSources)
    /\ result = None
    /\ DictIdle
    /\ EmojiIdle
    /\ FontIdle

\* result = createCLDRAnnotationsDict(sources)
ExtractCall ==
    /\ result = None
    /\ result' = Some(createCLDRAnnotationsDict(sources))
    /\ UNCHANGED <<dictVars, fs, sources, emojiVars, fontVars>>

ExtractNext == ExtractCall

SpecExtract == ExtractInit /\ [][ExtractNext]_vars

\* ------------------------------------------------- the emoji step (l.134-183)

\* File names the two annotation directories may hold.
FileNames == {"sr.xml", "sr_Latn.xml", "sr_Latn_BA.xml", "sr_BA.xml", "root.xml", "fr.xml"}
DerivedFileNames == {"sr.xml", "sr_Latn.xml", "fr.xml"}
EmojiPaths ==
    {PathJoin(annotationsDir, n) : n \in FileNames}
    \cup {PathJoin(annotationsDerivedDir, n) : n \in DerivedFileNames}
EmojiContents == {TreeNoTts, TreeA, TreeB, Malformed}

\* os.path.exists of an annotation file; os.listdir of the main directory.
PathExists(p) == p \in DOMAIN fs
ListDir(dir) == {n \in FileNames : PathJoin(dir, n) \in DOMAIN fs}

\* `x in processedFiles`
InList(x, list) == \E i \in 1..Len(list) : list[i] = x

\* A membership test that consults only the names line 135 lists.
IsProcessedSeedOnly(CLDRFile) == InList(CLDRFile, InitialProcessedFiles)

\* `CLDRFile in processedFiles` (line 164)
IsProcessed(CLDRFile) == InList(CLDRFile, processedFiles)

\* CLDRFile[:-4]
StripExtension(CLDRFile) == SubSeq(CLDRFile, 1, Len(CLDRFile) - 4)

\* Sources with every main file before every derived file.
ExceptionSourcesMainsFirst(files, i, cldrSources) ==
    LET mains == [k \in 1..Len(files) |-> PathJoin(annotationsDir, files[k] \o ".xml")]
        deriveds == [k \in 1..Len(files) |->
                        PathJoin(annotationsDerivedDir, files[k] \o ".xml")]
    IN cldrSources \o SelectSeq(mains, PathExists) \o SelectSeq(deriveds, PathExists)

\* The loop of lines 145-151: the sources of an exception language.
RECURSIVE ExceptionSources(_, _, _)
ExceptionSources(files, i, cldrSources) ==
    IF i > Len(files) THEN cldrSources
    ELSE LET CLDRFile == files[i]
             main == PathJoin(annotationsDir, CLDRFile \o ".xml")
             derived == PathJoin(annotationsDerivedDir, CLDRFile \o ".xml")
             withMain == IF PathExists(main)
                         THEN Append(cldrSources, main) ELSE cldrSources
             withDerived == IF PathExists(derived)
                            THEN Append(withMain, derived) ELSE withMain
         IN ExceptionSources(files, i + 1, withDerived)

\* Lines 169-173: the sources of a file of the main directory.
ScanSources(CLDRFile) ==
    LET main == PathJoin(annotationsDir, CLDRFile)
        derived == PathJoin(annotationsDerivedDir, CLDRFile)
    IN IF PathExists(derived) THEN <<main, derived>> ELSE <<main>>

\* No exception is caught.
IsCaughtNever(r) == FALSE

\* `except AssertionError: continue` (lines 155-156 and 177-178)
IsCaught(r) == r.raised = "AssertionError"

\* The text written to an emojis.dic (lines 158-160 and 180-182).
DicFileText(emojiDic) == docHeader \o Str(emojiDic, None)

\* codecs.open(path, "w") and the two writes.
WriteFile(files, path, text) ==
    [p \in DOMAIN files \cup {path} |-> IF p = path THEN text ELSE files[p]]

\* One iteration as the log keeps it: the phase, the table's language or the
\* scanned file, the language directory, whether os.mkdir was called, the
\* sources, and how the iteration ended.
LogEntry(phase, item, lang, mkdir, srcs, outcome) ==
    [phase |-> phase, item |-> item, lang |-> lang, mkdir |-> mkdir,
     sources |-> srcs, outcome |-> outcome]

Outcome(r) ==
    IF r.raised = "" THEN "written"
    ELSE IF IsCaught(r) THEN "empty" ELSE "error"

\* Where the loop of line 141 goes after the iteration at excIdx.
AfterException ==
    /\ excIdx' = excIdx + 1
    /\ IF excIdx = Len(CLDRExceptionsList)
       THEN /\ pc' = "scan"
            /\ listing' = ListDir(annotationsDir)
       ELSE /\ pc' = "exceptions"
            /\ listing' = listing

\* One iteration of the loop of lines 141-160.
ExceptionStep ==
    /\ pc = "exceptions"
    /\ excIdx <= Len(CLDRExceptionsList)
    /\ LET lang == CLDRExceptionsList[excIdx].lang
           files == CLDRExceptionsList[excIdx].files
           cldrSources == ExceptionSources(files, 1, <<>>)
           r == createCLDRAnnotationsDict(cldrSources)
       IN /\ dirs' = dirs \cup {lang}
          /\ processedFiles' =
                processedFiles \o [i \in 1..Len(files) |-> files[i] \o ".xml"]
          /\ runLog' = runLog \cup
                {LogEntry("exceptions", lang, lang, lang \notin dirs,
                          cldrSources, Outcome(r))}
          /\ IF r.raised = ""
             THEN /\ dicFiles' = WriteFile(dicFiles, PathJoin(lang, "emojis.dic"),
                                           DicFileText(r.value))
                  /\ AfterException
             ELSE IF IsCaught(r)
             THEN /\ dicFiles' = dicFiles
                  /\ AfterException
             ELSE /\ dicFiles' = dicFiles
                  /\ pc' = "aborted"
                  /\ UNCHANGED <<excIdx, listing>>
    /\ UNCHANGED <<dictVars, fs, extractVars, fontVars>>

\* One iteration of the loop of lines 163-183 on a file that line 164 skips.
ScanSkip ==
    /\ pc = "scan"
    /\ \E CLDRFile \in listing :
        /\ IsProcessed(CLDRFile)
        /\ listing' = listing \ {CLDRFile}
    /\ UNCHANGED <<pc, excIdx, processedFiles, dirs, dicFiles, runLog>>
    /\ UNCHANGED <<dictVars, fs, extractVars, fontVars>>

\* One iteration of the loop of lines 163-183 on a file it processes.
ScanStep ==
    /\ pc = "scan"
    /\ \E CLDRFile \in listing :
        /\ ~IsProcessed(CLDRFile)
        /\ LET CLDRLang == StripExtension(CLDRFile)
               cldrSources == ScanSources(CLDRFile)
               r == createCLDRAnnotationsDict(cldrSources)
           IN /\ dirs' = dirs \cup {CLDRLang}
              /\ runLog' = runLog \cup
                    {LogEntry("scan", CLDRFile, CLDRLang, CLDRLang \notin dirs,
                              cldrSources, Outcome(r))}
              /\ IF r.raised = ""
                 THEN /\ dicFiles' = WriteFile(dicFiles,
                                               PathJoin(CLDRLang, "emojis.dic"),
                                               DicFileText(r.value))
                      /\ processedFiles' = Append(processedFiles, CLDRFile)
                      /\ listing' = listing \ {CLDRFile}
                      /\ pc' = pc
                 ELSE IF IsCaught(r)
                 THEN /\ listing' = listing \ {CLDRFile}
                      /\ UNCHANGED <<pc, processedFiles, dicFiles>>
                 ELSE /\ pc' = "aborted"
                      /\ UNCHANGED <<listing, processedFiles, dicFiles>>
    /\ UNCHANGED excIdx
    /\ UNCHANGED <<dictVars, fs, extractVars, fontVars>>

\* The loop of line 163 ends: the script is over.
ScanEnd ==
    /\ pc = "scan"
    /\ listing = {}
    /\ pc' = "done"
    /\ UNCHANGED <<excIdx, listing, processedFiles, dirs, dicFiles, runLog>>
    /\ UNCHANGED <<dictVars, fs, extractVars, fontVars>>

\* Directories the earlier steps of the script may have left in the output
\* directory (line 125 creates one per NVDA language).
ExistingDirs == {{}, {"sr", "fr"}}

Init ==
    /\ \E S \in {T \in SUBSET EmojiPaths : Cardinality(T) <= MaxFiles} :
            fs \in [S -> EmojiContents]
    /\ pc = "exceptions"
    /\ excIdx = 1
    /\ listing = {}
    /\ processedFiles = InitialProcessedFiles
    /\ dirs \in ExistingDirs
    /\ dicFiles = <<>>
    /\ runLog = {}
    /\ DictIdle
    /\ ExtractIdle
    /\ FontIdle

Next == ExceptionStep \/ ScanSkip \/ ScanStep \/ ScanEnd

Spec == Init /\ [][Next]_vars

\* ------------------------------------------ the font-variant step (l.97-108)

\* In this step a Python string is the sequence of its code points.
chr(n) == <<n>>

\* s.startswith(prefix)
StartsWith(s, prefix) ==
    Len(s) >= Len(prefix) /\ SubSeq(s, 1, Len(prefix)) = prefix

\* s[n:]
SliceFrom(s, n) == SubSeq(s, n + 1, Len(s))

HexDigits == "0123456789ABCDEF"
IsHexDigit(c) == \E i \in 1..Len(HexDigits) : SubSeq(HexDigits, i, i) = c
DigitValue(c) == (CHOOSE i \in 1..Len(HexDigits) : SubSeq(HexDigits, i, i) = c) - 1

\* Whether int(s, 16) accepts s, a string that starts with "0x": at least one
\* digit follows, and only digits.
IsHexLiteral(s) ==
    /\ Len(s) > 2
    /\ \A i \in 3..Len(s) : IsHexDigit(SubSeq(s, i, i))

\* int(s, 16) of an accepted string.
RECURSIVE HexValue(_, _, _)
HexValue(s, i, acc) ==
    IF i > Len(s) THEN acc
    ELSE HexValue(s, i + 1, acc * 16 + DigitValue(SubSeq(s, i, i)))
Int16(s) == HexValue(s, 3, 0)

\* GLib.utf8_normalize(c, -1, GLib.NormalizeMode.ALL_COMPOSE) of a one-character
\* string: the compatibility decomposition, recomposed.  Of the characters of
\* UnicodeRecords, U+1D400 becomes A, U+2102 becomes C, U+1D7CA becomes U+03DC,
\* U+1D6B9 becomes U+0398 (through U+03F4), U+1D6DD becomes U+03B8 (through
\* U+03D1), U+00B5 becomes U+03BC, and the others are unchanged.
utf8_normalize(c) ==
    CASE c = chr(119808) -> chr(65)
      [] c = chr(8450)   -> chr(67)
      [] c = chr(120778) -> chr(988)
      [] c = chr(120505) -> chr(920)
      [] c = chr(120541) -> chr(952)
      [] c = chr(181)    -> chr(956)
      [] OTHER           -> c

\* A record of UnicodeData.txt as csv.reader splits it: fifteen fields.
UnicodeRecord(code, name, decomposition) ==
    <<code, name, "Lu", "0", "L", decomposition, "", "", "", "N", "", "", "", "", "">>

\* uCharacter[i], with Python's index from 0.
Field(uCharacter, i) == uCharacter[i + 1]

UnicodeRecords ==
    { UnicodeRecord("0041", "LATIN CAPITAL LETTER A", ""),
      UnicodeRecord("00B5", "MICRO SIGN", "<compat> 03BC"),
      UnicodeRecord("2102", "DOUBLE-STRUCK CAPITAL C", "<font> 0043"),
      UnicodeRecord("1D400", "MATHEMATICAL BOLD CAPITAL A", "<font> 0041"),
      UnicodeRecord("1D6B9", "MATHEMATICAL BOLD CAPITAL THETA SYMBOL", "<font> 03F4"),
      UnicodeRecord("1D6DD", "MATHEMATICAL BOLD THETA SYMBOL", "<font> 03D1"),
      UnicodeRecord("1D7CA", "MATHEMATICAL BOLD CAPITAL DIGAMMA", "<font> 03DC"),
      \* not a record of the real table: a decomposition int() rejects
      UnicodeRecord("E000", "<private use>", "<font> 0041 0042") }

\* The table has one record per code point.
DistinctCodes(records) ==
    \A i, j \in 1..Len(records) :
        Field(records[i], 0) = Field(records[j], 0) => i = j

FontInit ==
    /\ uDataFile \in {r \in SeqsUpTo(UnicodeRecords, MaxRecords) : DistinctCodes(r)}
    /\ uPos = 0
    /\ fontVariantsDict = SymbolsDictionary(Some("literal"))
    /\ fontPc = "reading"
    /\ fs = <<>>
    /\ DictIdle
    /\ ExtractIdle
    /\ EmojiIdle

\* The test of line 104.
IsFontVariant(uCharacter) == StartsWith(Field(uCharacter, 5), "<font>")

\* A test that keeps every pair.
IsKeptAlways(fontVariant, pronouncedCharacter) == TRUE

\* The test of line 107.
IsKept(fontVariant, pronouncedCharacter) ==
    pronouncedCharacter # utf8_normalize(fontVariant)

\* One iteration of the loop of lines 101-108.
FontRecord ==
    /\ fontPc = "reading"
    /\ uPos < Len(uDataFile)
    /\ LET uCharacter == uDataFile[uPos + 1]
           code == "0x" \o Field(uCharacter, 0)
           target == "0x" \o SliceFrom(Field(uCharacter, 5), 7)
       IN IF ~IsFontVariant(uCharacter)
          THEN /\ uPos' = uPos + 1
               /\ UNCHANGED <<fontVariantsDict, fontPc>>
          ELSE IF ~(IsHexLiteral(code) /\ IsHexLiteral(target))
          THEN \* int() raises ValueError
               /\ fontPc' = "aborted"
               /\ UNCHANGED <<uPos, fontVariantsDict>>
          ELSE LET fontVariant == chr(Int16(code))
                   pronouncedCharacter == chr(Int16(target))
               IN /\ fontVariantsDict' =
                        IF IsKept(fontVariant, pronouncedCharacter)
                        THEN [fontVariantsDict EXCEPT
                                !.items = SetItem(@, fontVariant, pronouncedCharacter)]
                        ELSE fontVariantsDict
                  /\ uPos' = uPos + 1
                  /\ UNCHANGED fontPc
    /\ UNCHANGED <<uDataFile, dictVars, fs, extractVars, emojiVars>>

\* The loop of line 101 ends.
FontEnd ==
    /\ fontPc = "reading"
    /\ uPos = Len(uDataFile)
    /\ fontPc' = "done"
    /\ UNCHANGED <<uDataFile, uPos, fontVariantsDict, dictVars, fs, extractVars, emojiVars>>

FontNext == FontRecord \/ FontEnd

SpecFont == FontInit /\ [][FontNext]_vars

\* ------------------------------------------- specification: one dictionary

\* Patterns, descriptions and qualifiers the dictionary is exercised with.
Patterns == {"a", "b", "c"}
Descriptions == {"x", "y z", "t\tu"}
Qualifiers == {None, Some(""), Some("literal")}

DictInit ==
    /\ items = <<>>
    /\ symbolsQualifier \in Qualifiers
    /\ history = <<>>
    /\ dicText = None
    /\ fs = <<>>
    /\ ExtractIdle
    /\ EmojiIdle
    /\ FontIdle

\* self[pattern] = description
DictSetItem ==
    /\ Len(history) < MaxSets
    /\ \E p \in Patterns, d \in Descriptions :
        /\ items' = SetItem(items, p, d)
        /\ history' = Append(history, <<p, d>>)
    /\ dicText' = None
    /\ UNCHANGED <<symbolsQualifier, fs, extractVars, emojiVars, fontVars>>

\* str(self)
DictStr ==
    /\ dicText = None
    /\ dicText' = Some(Str(items, symbolsQualifier))
    /\ UNCHANGED <<items, symbolsQualifier, history, fs, extractVars, emojiVars, fontVars>>

DictNext == DictSetItem \/ DictStr

SpecDict == DictInit /\ [][DictNext]_vars

\* ===================================================================
\* Properties
\* ===================================================================

\* ------------------------------------------------------- reading text back

\* The first position of sep in s, or 0.
FirstIndex(s, sep) ==
    LET hits == {i \in 1..(Len(s) - Len(sep) + 1) : SubSeq(s, i, i + Len(sep) - 1) = sep}
    IN IF hits = {} THEN 0 ELSE CHOOSE i \in hits : \A j \in hits : i <= j

\* s cut at every occurrence of sep, as str.split(sep) cuts it.
RECURSIVE SplitOn(_, _)
SplitOn(s, sep) ==
    LET i == FirstIndex(s, sep)
    IN IF i = 0 THEN <<s>>
       ELSE <<SubSeq(s, 1, i - 1)>> \o SplitOn(SubSeq(s, i + Len(sep), Len(s)), sep)

\* The lines of a text whose lines end with CRLF; what follows the last CRLF
\* is the last element.
CrLfLines(text) == SplitOn(text, "\r\n")

\* The data lines of a rendered dictionary: all but the header and the empty
\* remainder after the last CRLF.
DataLines(text) ==
    LET L == CrLfLines(text) IN SubSeq(L, 2, Len(L) - 1)

Fields(line) == SplitOn(line, "\t")

\* The distinct patterns of a sequence of __setitem__ calls, each at the place
\* of its first call.
RECURSIVE FirstInsertions(_)
FirstInsertions(h) ==
    IF h = <<>> THEN <<>>
    ELSE LET before == FirstInsertions(SubSeq(h, 1, Len(h) - 1))
             p == h[Len(h)][1]
         IN IF \E i \in 1..Len(before) : before[i] = p
            THEN before ELSE Append(before, p)

\* The description of the last call for pattern p.
LastDescription(h, p) ==
    LET calls == {i \in 1..Len(h) : h[i][1] = p}
    IN h[CHOOSE i \in calls : \A j \in calls : j <= i][2]

\* ------------------------------------------------------------------- C7

\* C7: str() of a SymbolsDictionary emits exactly one data line per distinct
\* pattern, in the order of the patterns' first insertions, and each line
\* carries the description of the pattern's last insertion.
C7_RenderKeepsFirstOrderLastValue ==
    (~dicText.isNone) =>
        LET L == DataLines(dicText.val)
            order == FirstInsertions(history)
        IN /\ Len(L) = Len(order)
           /\ \A i \in 1..Len(order) :
                LET start == order[i] \o "\t" \o LastDescription(history, order[i])
                                      \o "\tnone"
                IN /\ Len(L[i]) >= Len(start)
                   /\ SubSeq(L[i], 1, Len(start)) = start

\* a, then another pattern, then a again with another description; rendered.
C7_Witness ==
    /\ ~dicText.isNone
    /\ Len(history) = 3
    /\ history[1][1] = history[3][1]
    /\ history[1][2] # history[3][2]
    /\ history[2][1] # history[1][1]

\* ------------------------------------------------------------------- C8

\* The text starts with the header line, ends with CRLF, and has one data
\* line per item.
RenderShape(text, d) ==
    /\ Len(text) >= 10
    /\ SubSeq(text, 1, 10) = "symbols:\r\n"
    /\ SubSeq(text, Len(text) - 1, Len(text)) = "\r\n"
    /\ Len(DataLines(text)) = Len(d)
    /\ (d = <<>> => text = "symbols:\r\n")

ThreeFields(text) ==
    \A i \in 1..Len(DataLines(text)) :
        LET f == Fields(DataLines(text)[i])
        IN Len(f) = 3 /\ f[3] = "none"

FourFields(text, Q) ==
    \A i \in 1..Len(DataLines(text)) :
        LET f == Fields(DataLines(text)[i])
        IN Len(f) = 4 /\ f[3] = "none" /\ f[4] = Q

HasTab(s) == FirstIndex(s, "\t") # 0

TabFree(d) == \A i \in 1..Len(d) : ~HasTab(d[i][1]) /\ ~HasTab(d[i][2])

\* C8 as stated: header, one CRLF line per entry; three fields ending in
\* "none" when the qualifier is unset, four fields ending in Q when the
\* qualifier is set to Q; an empty dictionary renders to the header alone.
C8_AsStated ==
    (~dicText.isNone) =>
        /\ RenderShape(dicText.val, items)
        /\ symbolsQualifier.isNone => ThreeFields(dicText.val)
        /\ (~symbolsQualifier.isNone) =>
                FourFields(dicText.val, symbolsQualifier.val)

\* C8, amended: for patterns and descriptions without a tab, the data lines
\* have three fields ending in "none" when the qualifier is None or the empty
\* string, and four fields ending in Q when the qualifier is a non-empty Q.
C8_RenderFields ==
    (~dicText.isNone) =>
        /\ RenderShape(dicText.val, items)
        /\ TabFree(items) =>
            /\ (symbolsQualifier.isNone \/ symbolsQualifier.val = "")
                    => ThreeFields(dicText.val)
            /\ (~symbolsQualifier.isNone /\ symbolsQualifier.val # "")
                    => FourFields(dicText.val, symbolsQualifier.val)

\* A rendered dictionary of two tab-free items under the qualifier "literal".
C8_Witness ==
    /\ ~dicText.isNone
    /\ symbolsQualifier = Some("literal")
    /\ Len(items) = 2
    /\ TabFree(items)

\* ------------------------------------------------------------- C4 and C5

\* The texts of the tts annotations of key cp in a parsed file, in order.
TtsTexts(content, cp) ==
    LET hits == SelectSeq(content.elems,
                          LAMBDA e : /\ e.tag = "annotation"
                                     /\ "type" \in DOMAIN e.attrib
                                     /\ e.attrib["type"] = "tts"
                                     /\ e.attrib["cp"] = cp)
    IN [i \in 1..Len(hits) |-> hits[i].text]

AnnotationKeys == {"k1", "k2", "k3"}

\* The sources all exist and parse.
Readable(srcs) ==
    \A i \in 1..Len(srcs) : srcs[i] \in DOMAIN fs /\ fs[srcs[i]].ok

\* The positions of the sources that hold a tts annotation of key cp.
SourcesWith(srcs, cp) == {i \in 1..Len(srcs) : TtsTexts(fs[srcs[i]], cp) # <<>>}

\* A text without its colons.
RECURSIVE StripColons(_)
StripColons(t) ==
    IF t = "" THEN ""
    ELSE LET rest == StripColons(SubSeq(t, 1, Len(t) - 1))
             last == SubSeq(t, Len(t), Len(t))
         IN IF last = ":" THEN rest ELSE rest \o last

\* The value the last source holding cp gives it.
LastValue(srcs, cp) ==
    LET with == SourcesWith(srcs, cp)
        last == CHOOSE i \in with : \A j \in with : j <= i
        texts == TtsTexts(fs[srcs[last]], cp)
    IN StripColons(texts[Len(texts)])

\* C4: createCLDRAnnotationsDict never returns a dictionary without entries;
\* on an empty source list, or on sources without any tts annotation, it
\* raises the AssertionError instead of returning.
C4_NeverReturnsEmpty ==
    (~result.isNone) =>
        /\ result.val.raised = "" => Len(result.val.value) >= 1
        /\ (Readable(sources) /\ \A cp \in AnnotationKeys : SourcesWith(sources, cp) = {})
                => result.val.raised = "AssertionError"

\* The call was made on existing, parsable sources without a tts annotation.
C4_Witness ==
    /\ ~result.isNone
    /\ Len(sources) = 2
    /\ Readable(sources)
    /\ \A cp \in AnnotationKeys : SourcesWith(sources, cp) = {}
    /\ result.val.raised = "AssertionError"

\* C5: the returned dictionary holds exactly the keys that some source
\* annotates with type tts, and the value of each is the text, without its
\* colons, of the last source in the list that holds the key.
C5_LaterSourceWins ==
    (~result.isNone /\ result.val.raised = "") =>
        \A cp \in AnnotationKeys :
            /\ HasKey(result.val.value, cp) <=> SourcesWith(sources, cp) # {}
            /\ HasKey(result.val.value, cp) =>
                    GetItem(result.val.value, cp) = LastValue(sources, cp)

\* Two different sources that give k1 different values; the call returned.
C5_Witness ==
    /\ ~result.isNone
    /\ result.val.raised = ""
    /\ Len(sources) = 2
    /\ SourcesWith(sources, "k1") = {1, 2}
    /\ LastValue(<<sources[1]>>, "k1") # LastValue(<<sources[2]>>, "k1")

\* ------------------------------------------------------- the emoji step

ExceptionFileNames ==
    UNION {{CLDRExceptionsList[i].files[j] \o ".xml" :
                j \in 1..Len(CLDRExceptionsList[i].files)} :
           i \in 1..Len(CLDRExceptionsList)}

PreSeededFileNames == {"root.xml", "en_001.xml", "sr_Cyrl.xml", "sr_Cyrl_BA.xml"}

\* The extraction of a logged iteration found no entry.
ExtractionEmpty(entry) ==
    createCLDRAnnotationsDict(entry.sources).raised = "AssertionError"

\* C1: in both phases a language directory is created only if the extraction
\* for the language yields an entry: no iteration whose extraction is empty
\* calls os.mkdir.
C1_DirectoryOnlyWithEntries ==
    \A entry \in runLog : ExtractionEmpty(entry) => ~entry.mkdir

\* C2: no emojis.dic is written by both the exception phase and the scan.
C2_NoDictionaryWrittenTwice ==
    \A e1, e2 \in runLog :
        (e1.phase = "exceptions" /\ e1.outcome = "written"
            /\ e2.phase = "scan" /\ e2.outcome = "written")
        => PathJoin(e1.lang, "emojis.dic") # PathJoin(e2.lang, "emojis.dic")

\* C3: once an entry of the exception table has been handled, whatever its
\* outcome, its base names are in processedFiles; and the scan makes no
\* iteration (no directory, no extraction, no dictionary) for a file named
\* in the exception table or pre-seeded, nor reads such a file of the main
\* directory.
C3_ProcessedFilesProtect ==
    /\ \A i \in 1..Len(CLDRExceptionsList) :
        (i < excIdx \/ \E e \in runLog : e.phase = "exceptions"
                                         /\ e.item = CLDRExceptionsList[i].lang)
        => \A j \in 1..Len(CLDRExceptionsList[i].files) :
                InList(CLDRExceptionsList[i].files[j] \o ".xml", processedFiles)
    /\ \A e \in runLog :
        e.phase = "scan" =>
            /\ e.item \notin ExceptionFileNames \cup PreSeededFileNames
            /\ \A k \in 1..Len(e.sources) :
                \A n \in ExceptionFileNames \cup PreSeededFileNames :
                    e.sources[k] # PathJoin(annotationsDir, n)

\* The run ended with a pre-seeded file, a file of the exception table and an
\* ordinary file in the main directory, the last one handled by the scan.
C3_Witness ==
    /\ pc = "done"
    /\ {"root.xml", "sr_Latn.xml", "fr.xml"} \subseteq ListDir(annotationsDir)
    /\ \E e \in runLog : e.phase = "scan" /\ e.item = "fr.xml"

\* The sources of a table entry as the table order gives them: for each base
\* name the main file, then the derived one, the missing ones left out.
TableSources(files) ==
    LET candidates ==
            [k \in 1..(2 * Len(files)) |->
                IF k % 2 = 1
                THEN PathJoin(annotationsDir, files[(k + 1) \div 2] \o ".xml")
                ELSE PathJoin(annotationsDerivedDir, files[k \div 2] \o ".xml")]
    IN SelectSeq(candidates, LAMBDA path : path \in DOMAIN fs)

SrSources == { PathJoin(annotationsDir, "sr.xml"),
               PathJoin(annotationsDerivedDir, "sr.xml") }
SrLatnSources == <<PathJoin(annotationsDir, "sr_Latn.xml"),
                   PathJoin(annotationsDerivedDir, "sr_Latn.xml")>>

\* Key cp is annotated by a source of sr and by a source of sr_Latn.
Collides(cp) ==
    /\ \E path \in SrSources : path \in DOMAIN fs /\ TtsTexts(fs[path], cp) # <<>>
    /\ \E k \in 1..2 : /\ SrLatnSources[k] \in DOMAIN fs
                       /\ TtsTexts(fs[SrLatnSources[k]], cp) # <<>>

\* The lines of a dictionary file that start with key cp.
LinesOf(text, cp) ==
    SelectSeq(CrLfLines(text),
              LAMBDA line : /\ Len(line) > Len(cp)
                            /\ SubSeq(line, 1, Len(cp) + 1) = cp \o "\t")

\* C6: the sources of an exception language are its base names in table
\* order, main file before derived file, existing files only; and in
\* sr/emojis.dic every key that sr and sr_Latn both annotate has the value
\* sr_Latn gives it.
C6_TableOrderSrLatnWins ==
    /\ \A e \in runLog :
        e.phase = "exceptions" =>
            \E i \in 1..Len(CLDRExceptionsList) :
                /\ CLDRExceptionsList[i].lang = e.item
                /\ e.sources = TableSources(CLDRExceptionsList[i].files)
    /\ PathJoin("sr", "emojis.dic") \in DOMAIN dicFiles =>
        \A cp \in AnnotationKeys :
            Collides(cp) =>
                LinesOf(dicFiles[PathJoin("sr", "emojis.dic")], cp)
                    = << cp \o "\t"
                         \o LastValue(SelectSeq(SrLatnSources,
                                                LAMBDA path : path \in DOMAIN fs), cp)
                         \o "\tnone" >>

\* sr/emojis.dic was written from sr and sr_Latn files that give k1
\* different values.
C6_Witness ==
    /\ PathJoin("sr", "emojis.dic") \in DOMAIN dicFiles
    /\ PathJoin(annotationsDir, "sr.xml") \in DOMAIN fs
    /\ PathJoin(annotationsDir, "sr_Latn.xml") \in DOMAIN fs
    /\ Collides("k1")
    /\ LastValue(<<PathJoin(annotationsDir, "sr.xml")>>, "k1")
            # LastValue(<<PathJoin(annotationsDir, "sr_Latn.xml")>>, "k1")

\* Every language of the table and every file of the main directory was
\* reached by its loop.
AllReached ==
    /\ \A i \in 1..Len(CLDRExceptionsList) :
        \E e \in runLog : e.phase = "exceptions" /\ e.item = CLDRExceptionsList[i].lang
    /\ \A n \in ListDir(annotationsDir) :
        \/ InList(n, processedFiles)
        \/ \E e \in runLog : e.phase = "scan" /\ e.item = n

Contributes(uCharacter) ==
    /\ Len(uCharacter[6]) >= 6
    /\ SubSeq(uCharacter[6], 1, 6) = "<font>"
    /\ utf8_normalize(<<Int16("0x" \o uCharacter[1])>>)
            # <<Int16("0x" \o SubSeq(uCharacter[6], 8, Len(uCharacter[6])))>>

\* C10: after the records read so far, and so at the end of the table, the
\* font-variants dictionary, whose qualifier is "literal", holds fontVariant -> plain exactly for the records
\* that carry the font tag and whose normalized character differs from the
\* plain one.
C10_FontVariantsExact ==
    (fontPc \in {"reading", "done"}) =>
        /\ fontVariantsDict.symbolsQualifier = Some("literal")
        /\ \A i \in 1..uPos :
            Contributes(uDataFile[i]) =>
                /\ HasKey(fontVariantsDict.items, <<Int16("0x" \o uDataFile[i][1])>>)
                /\ GetItem(fontVariantsDict.items, <<Int16("0x" \o uDataFile[i][1])>>)
                    = <<Int16("0x" \o SubSeq(uDataFile[i][6], 8, Len(uDataFile[i][6])))>>
        /\ \A k \in 1..Len(fontVariantsDict.items) :
            \E i \in 1..uPos :
                /\ Contributes(uDataFile[i])
                /\ fontVariantsDict.items[k][1] = <<Int16("0x" \o uDataFile[i][1])>>
        /\ fontPc = "done" => uPos = Len(uDataFile)

\* The table was read to its end; it held a record without the tag, a tagged
\* record that normalization already covers and one that it does not.
C10_Witness ==
    /\ fontPc = "done"
    /\ Len(uDataFile) = 3
    /\ Len(fontVariantsDict.items) = 1
    /\ \E i \in 1..3 : uDataFile[i][6] = "<font> 0041"
    /\ \E i \in 1..3 : uDataFile[i][6] = "<compat> 03BC"

====
